---- MODULE Spec2Model ----
(***************************************************************************)
(* Model of saido's configuration loader (package config: LoadConfig,      *)
(* GetDashboardInfoConfig, parseConnection, parseConfig) and of the        *)
(* dashboard's periodic goroutines (package charts: Main, newWidgets,      *)
(* newSegmentDisplay, newHostButtonPage, addNextPrevButtons, gridLayout).  *)
(*                                                                         *)
(* Spec      : one run of the loader on a configuration file, from         *)
(*             LoadConfig to the point where Main opens the dashboard.     *)
(* PollSpec  : the dashboard session after newWidgets has started the      *)
(*             goroutines, up to and past the return of Main.              *)
(* FairPollSpec : PollSpec with the fairness the Go scheduler and the      *)
(*             tickers give to every goroutine.                            *)
(* UISpec    : Main from the return of GetDashboardInfoConfig on: widget   *)
(*             construction, the first layout, and the button callbacks    *)
(*             next to the goroutines.                                     *)
(***************************************************************************)
EXTENDS Integers, Sequences, FiniteSets, TLC

VARIABLES
    file,          \* the configuration file on disk: readable? and its content
    config,        \* *Config returned by LoadConfig
    pc,            \* position of the main goroutine
    fatal,         \* which log.Fatal ended the process ("" while it lives)
    logged,        \* log.Errorf messages written so far
    stack,         \* call stack of parseConfig (last element = running call)
    heap,          \* the Connection objects allocated so far, by address
    allHosts,      \* []Host built by parseConfig, in the order of the appends
    names,         \* the name argument of the call that appended each Host
    visited,       \* name arguments of the parseConfig calls made so far
    dashboardInfo, \* *DashboardInfo filled by GetDashboardInfoConfig
    previous,      \* host addresses returned by the previous resolution
    ctxDone,       \* ctx.Done() is closed (cancel() was called)
    tasks,         \* the goroutines started by newWidgets
    failing,       \* the tasks whose sampler returns an error on every call
    taskPc,        \* position of each goroutine
    ticks,         \* completed ticks of each goroutine (modulo TickMod)
    widget,        \* what each goroutine wrote to its widget (modulo TickMod)
    lastError,     \* whether the last sample of each goroutine failed
    panicked,      \* a goroutine panicked: the process is dead
    currentHostPage, \* var currentHostPage: index of the page of hosts shown
    currentHost,   \* var currentHost: address of the host shown alone
    currentMetric, \* var currentMetric: metric shown for currentHost
    wHosts,        \* w.hosts: the pages of host rows built by newWidgets
    layout         \* what the last c.Update put on the screen

vars == <<file, config, pc, fatal, logged, stack, heap, allHosts, names, visited,
          dashboardInfo, previous, ctxDone, tasks, failing, taskPc, ticks, widget,
          lastError, panicked, currentHostPage, currentHost, currentMetric, wHosts,
          layout>>

loaderVars == <<file, config, pc, fatal, logged, stack, heap, allHosts, names,
                visited, dashboardInfo, previous>>

pollVars == <<ctxDone, tasks, failing, taskPc, ticks, widget, lastError, panicked>>

uiVars == <<currentHostPage, currentHost, currentMetric, wHosts, layout>>

(***************************************************************************)
(* Values of the configuration document.                                   *)
(***************************************************************************)

\* A connection block with no key set (also what a nil map decodes from).
ZeroBlock ==
    [type |-> "", username |-> "", password |-> "", private_key_path |-> "",
     private_key_passphrase |-> "", port |-> 0]

\* type Connection struct: the zero value.
ZeroConnection ==
    [Type |-> "", Username |-> "", Password |-> "", PrivateKeyPath |-> "",
     PrivateKeyPassPhrase |-> "", Port |-> 0, Host |-> ""]

\* The value found under a node's "connection" key.
NoConnection == [tag |-> "absent", block |-> ZeroBlock]
BadConnection == [tag |-> "bad", block |-> ZeroBlock]
ConnectionMap(b) == [tag |-> "map", block |-> b]

\* The value found under a node's "children" key.
EmptyKids == [k \in {} |-> 0]
NoChildren == [tag |-> "absent", kids |-> EmptyKids]
BadChildren == [tag |-> "bad", kids |-> EmptyKids]
ChildrenMap(kids) == [tag |-> "map", kids |-> kids]

\* A node as parseConfig receives it: a map with optional keys.
Group(c, ch, al) == [connection |-> c, children |-> ch, alias |-> al]

\* A nil map: no key is present.
NilGroup == Group(NoConnection, NoChildren, "")

\* The value of one entry of a children map: nil, a map, or anything else.
NilValue == [kind |-> "nil", group |-> NilGroup]
ScalarValue == [kind |-> "scalar", group |-> NilGroup]
MapValue(g) == [kind |-> "map", group |-> g]

(***************************************************************************)
(* The configurations explored.                                            *)
(***************************************************************************)

SshPassword ==
    [type |-> "ssh", username |-> "u", password |-> "p", private_key_path |-> "",
     private_key_passphrase |-> "", port |-> 0]

SshKey ==
    [type |-> "ssh", username |-> "u", password |-> "", private_key_path |-> "k",
     private_key_passphrase |-> "s", port |-> 2222]

LocalBlock ==
    [type |-> "local", username |-> "", password |-> "", private_key_path |-> "",
     private_key_passphrase |-> "", port |-> 0]

BothBlock ==
    [type |-> "ssh", username |-> "u", password |-> "p", private_key_path |-> "k",
     private_key_passphrase |-> "", port |-> 0]

\* Every connection block over small field domains.
ConnBlocks ==
    [type : {"ssh", "local", ""}, username : {"", "u"}, password : {"", "p"},
     private_key_path : {"", "k"}, private_key_passphrase : {"", "s"},
     port : {0, 22, 2222}]

LeafConnections == {NoConnection, ConnectionMap(SshKey), ConnectionMap(BothBlock)}

GroupConnections ==
    {NoConnection, BadConnection, ConnectionMap(SshPassword),
     ConnectionMap(LocalBlock), ConnectionMap(BothBlock)}

RootConnections ==
    {NoConnection, BadConnection, ConnectionMap(SshPassword), ConnectionMap(LocalBlock)}

\* Entries that are hosts: a bare name, a scalar, or a map without children.
LeafValues ==
    {NilValue, ScalarValue, MapValue(Group(NoConnection, NoChildren, "al"))}
        \cup {MapValue(Group(c, NoChildren, "")) : c \in LeafConnections}

InnerLeafValues ==
    {NilValue, ScalarValue, MapValue(Group(ConnectionMap(SshKey), NoChildren, "al"))}

\* All children maps whose keys are among ks and whose values are among vs.
KidsOver(ks, vs) == UNION {[S -> vs] : S \in SUBSET ks}

\* Entries that are groups: a map with a children key.
GroupValues ==
    {MapValue(Group(c, ch, "")) :
        c \in GroupConnections,
        ch \in {BadChildren} \cup {ChildrenMap(k) : k \in KidsOver({"a", "b"}, InnerLeafValues)}}

\* The children of the root: "a" is a host, "g" a host or a group.
RootKids ==
    {k \in KidsOver({"a", "g"}, LeafValues \cup GroupValues) :
        "a" \in DOMAIN k => k["a"] \in LeafValues}

\* The hosts trees that vary in shape.
ShapeTrees ==
    {Group(c, ch, "") :
        c \in RootConnections,
        ch \in {NoChildren, BadChildren} \cup {ChildrenMap(k) : k \in RootKids}}

\* The hosts trees that vary in the connection block: root -> {a, g -> {b}},
\* with the block on the group g.
BlockTrees ==
    {Group(NoConnection,
           ChildrenMap([k \in {"a", "g"} |->
               IF k = "a" THEN NilValue
               ELSE MapValue(Group(ConnectionMap(b),
                                   ChildrenMap([j \in {"b"} |-> NilValue]), ""))]),
           "") : b \in ConnBlocks}

MetricSets == {{}, {"memory"}, {"memory", "bogus"}}

PollIntervals == {3, 5}

\* type Config struct.
Configs ==
    {[Hosts |-> h, Metrics |-> m, Title |-> "", PollInterval |-> p] :
        h \in ShapeTrees, m \in MetricSets, p \in PollIntervals}
    \cup
    {[Hosts |-> h, Metrics |-> {"memory"}, Title |-> "t", PollInterval |-> 5] :
        h \in BlockTrees}

\* The zero Config: what yaml.Unmarshal leaves when the document is empty.
ZeroConfig == [Hosts |-> NilGroup, Metrics |-> {}, Title |-> "", PollInterval |-> 0]

\* The file: unreadable, readable but not YAML, or a document.
Files ==
    {[readable |-> FALSE, wellFormed |-> TRUE, content |-> ZeroConfig],
     [readable |-> TRUE, wellFormed |-> FALSE, content |-> ZeroConfig]}
    \cup {[readable |-> TRUE, wellFormed |-> TRUE, content |-> c] : c \in Configs}

(***************************************************************************)
(* package config                                                          *)
(***************************************************************************)

SSHPort == 22

MinPollInterval == 5

\* inspector.Valid: the metric names the inspector package knows.
Valid(metric) == metric \in {"memory"}

\* mapstructure.Decode(conn, &c): each key of the block fills the field that
\* carries its tag; Host has no tag and stays empty.
Decode(conn) ==
    [Type |-> conn.type, Username |-> conn.username, Password |-> conn.password,
     PrivateKeyPath |-> conn.private_key_path,
     PrivateKeyPassPhrase |-> conn.private_key_passphrase,
     Port |-> conn.port, Host |-> ""]

\* Faulty variant of DefaultPort: the default is applied whatever the type is.
DefaultPortAnyType(c) ==
    IF c.Port = 0 THEN [c EXCEPT !.Port = SSHPort] ELSE c

\* parseConnection: c.Type == "ssh" && c.Port == 0 -> c.Port = 22
DefaultPort(c) ==
    IF c.Type = "ssh" /\ c.Port = 0 THEN [c EXCEPT !.Port = SSHPort] ELSE c

\* Faulty variant of CredentialsConflict: the check is made for ssh connections only.
CredentialsConflictSshOnly(c) ==
    c.Type = "ssh" /\ c.Password # "" /\ c.PrivateKeyPath # ""

\* parseConnection: c.Password != "" && c.PrivateKeyPath != "" -> log.Fatal
CredentialsConflict(c) == c.Password # "" /\ c.PrivateKeyPath # ""

\* parseConnection: the Connection it builds, and whether it ends the process
\* instead of returning it.
parseConnection(conn) ==
    LET c == DefaultPort(Decode(conn))
    IN  [fatal |-> CredentialsConflict(c), c |-> c]

\* parseConfig: conn, ok := group["connection"]
HasConnection(group) == group.connection.tag # "absent"

\* parseConfig: v, ok := conn.(map[interface{}]interface{}); v is a nil map
\* when the assertion fails.
ConnectionArg(group) ==
    IF group.connection.tag = "map" THEN group.connection.block ELSE ZeroBlock

\* Faulty variant of CurrentConn: the Connection of the group is parsed but the
\* inherited one stays in use.
CurrentConnInherited(group, currentConnection, fresh) == currentConnection

\* parseConfig: currentConn := currentConnection, replaced by the Connection
\* parseConnection returns (at address fresh) when the group has a connection.
CurrentConn(group, currentConnection, fresh) ==
    IF HasConnection(group) THEN fresh ELSE currentConnection

\* parseConfig: children, ok := group["children"]
HasChildren(group) == group.children.tag # "absent"

\* Faulty variant of EmitsHost: isParent is never set, a group appends a Host too.
EmitsHostAlways(group) == TRUE

\* parseConfig: isParent is false at entry and set in the children branch;
\* if !isParent, the call appends a Host.
EmitsHost(group) == ~HasChildren(group)

\* parseConfig: parsedChildren, ok := children.(map[interface{}]interface{})
ChildrenParsed(group) == group.children.tag = "map"

\* parseConfig: host, ok := v.(map[interface{}]interface{}); a nil map when
\* the entry is nil or is no map.
ChildGroup(v) == IF v.kind = "map" THEN v.group ELSE NilGroup

\* parseConfig: !ok && v != nil
ChildFailsToParse(v) == v.kind = "scalar"

\* parseConfig: fmt.Sprintf("%s:%s", name, k), kept as the path it spells.
ChildName(name, k) == Append(name, k)

\* parseConfig: currentConn.Host = host
BindHost(h, currentConn, host) == [h EXCEPT ![currentConn].Host = host]

\* parseConfig: newHost := Host{Address: host, Connection: currentConn};
\* newHost.Alias = alias
NewHost(host, group, currentConn) ==
    [Address |-> host, Alias |-> group.alias, Connection |-> currentConn]

\* Faulty variant of PollIntervalTooLow: only a missing interval is rejected.
PollIntervalUnset(cfg) == cfg.PollInterval = 0

\* GetDashboardInfoConfig: config.PollInterval < 5
PollIntervalTooLow(cfg) == cfg.PollInterval < MinPollInterval

\* GetDashboardInfoConfig: some configured metric is not inspector.Valid
InvalidMetric(cfg) == \E metric \in cfg.Metrics : ~Valid(metric)

\* GetDashboardInfoConfig: dashboardInfo.Title
TitleOf(cfg) == IF cfg.Title # "" THEN cfg.Title ELSE "Saido"

\* DashboardInfo.GetAllHostAddresses
GetAllHostAddresses(hosts) == [i \in 1..Len(hosts) |-> hosts[i].Address]

ZeroDashboardInfo == [Hosts |-> <<>>, Metrics |-> {}, Title |-> "", PollInterval |-> 0]

NoPrevious == [known |-> FALSE, addresses |-> <<>>]

\* One call of parseConfig: its arguments, its currentConn, and the keys the
\* range over parsedChildren has not yet yielded.
Frame(name, host, group, currentConn) ==
    [name |-> name, host |-> host, group |-> group, currentConn |-> currentConn,
     ranging |-> FALSE, todo |-> {}]

Top == stack[Len(stack)]

Pop == SubSeq(stack, 1, Len(stack) - 1)

\* log.Fatal / log.Fatalf: the process exits.
Fatal(cause) ==
    /\ pc' = "exited"
    /\ fatal' = cause

\* LoadConfig
LoadConfig ==
    /\ pc = "LoadConfig"
    /\ logged' = IF file.readable THEN logged ELSE logged \cup {"yamlFile.Get err"}
    /\ IF file.readable /\ ~file.wellFormed
       THEN Fatal("yaml") /\ UNCHANGED config
       ELSE /\ config' = IF file.readable THEN file.content ELSE ZeroConfig
            /\ pc' = "GetDashboardInfoConfig"
            /\ UNCHANGED fatal
    /\ UNCHANGED <<file, stack, heap, allHosts, names, visited, dashboardInfo, previous>>
    /\ UNCHANGED pollVars
    /\ UNCHANGED uiVars

\* GetDashboardInfoConfig, up to the call parseConfig("root", "", config.Hosts,
\* &Connection{}).
GetDashboardInfoConfig ==
    /\ pc = "GetDashboardInfoConfig"
    /\ dashboardInfo' = [ZeroDashboardInfo EXCEPT !.Title = TitleOf(config)]
    /\ heap' = <<ZeroConnection>>
    /\ stack' = <<Frame(<<"root">>, "", config.Hosts, 1)>>
    /\ allHosts' = <<>>
    /\ names' = <<>>
    /\ visited' = {}
    /\ pc' = "parseConfig"
    /\ UNCHANGED <<file, config, fatal, logged, previous>>
    /\ UNCHANGED pollVars
    /\ UNCHANGED uiVars

\* parseConfig returned to GetDashboardInfoConfig: dashboardInfo.Hosts = ...
Returned(st, hosts) ==
    IF st = <<>>
    THEN /\ pc' = "metrics"
         /\ dashboardInfo' = [dashboardInfo EXCEPT !.Hosts = hosts]
    ELSE UNCHANGED <<pc, dashboardInfo>>

\* parseConfig, from if !isParent to return allHosts, in the call f whose
\* currentConn is at address cur of the heap h.
AppendHostAndReturn(f, h, cur) ==
    /\ heap' = IF EmitsHost(f.group) THEN BindHost(h, cur, f.host) ELSE h
    /\ allHosts' = IF EmitsHost(f.group)
                   THEN Append(allHosts, NewHost(f.host, f.group, cur)) ELSE allHosts
    /\ names' = IF EmitsHost(f.group) THEN Append(names, f.name) ELSE names
    /\ stack' = Pop
    /\ Returned(Pop, allHosts')

\* parseConfig, from its entry to the range over the children (a group), to
\* the return (a host), or to the log.Fatal that ends the process.
ParseConfigCall ==
    /\ pc = "parseConfig"
    /\ stack # <<>>
    /\ ~Top.ranging
    /\ LET f == Top
           parsed == parseConnection(ConnectionArg(f.group))
           h1 == IF HasConnection(f.group) THEN Append(heap, parsed.c) ELSE heap
           currentConn == CurrentConn(f.group, f.currentConn, Len(heap) + 1)
       IN  /\ visited' = visited \cup {f.name}
           /\ logged' = IF f.group.connection.tag = "bad"
                        THEN logged \cup {"Failed to parse connection"} ELSE logged
           /\ IF HasConnection(f.group) /\ parsed.fatal
              THEN /\ Fatal("credentials")
                   /\ UNCHANGED <<stack, heap, allHosts, names, dashboardInfo>>
              ELSE IF HasChildren(f.group)
              THEN IF ~ChildrenParsed(f.group)
                   THEN /\ Fatal("children")
                        /\ heap' = h1
                        /\ UNCHANGED <<stack, allHosts, names, dashboardInfo>>
                   ELSE /\ stack' = [stack EXCEPT ![Len(stack)] =
                                        [f EXCEPT !.currentConn = currentConn,
                                                  !.ranging = TRUE,
                                                  !.todo = DOMAIN f.group.children.kids]]
                        /\ heap' = h1
                        /\ UNCHANGED <<pc, fatal, allHosts, names, dashboardInfo>>
              ELSE /\ AppendHostAndReturn(f, h1, currentConn)
                   /\ UNCHANGED fatal
    /\ UNCHANGED <<file, config, previous>>
    /\ UNCHANGED pollVars
    /\ UNCHANGED uiVars

\* parseConfig: one iteration of for k, v := range parsedChildren, up to the
\* recursive call. Go yields the keys of a map in an unspecified order.
ParseConfigRange ==
    /\ pc = "parseConfig"
    /\ stack # <<>>
    /\ Top.ranging
    /\ \E k \in Top.todo :
        LET f == Top
            v == f.group.children.kids[k]
        IN  /\ logged' = IF ChildFailsToParse(v)
                         THEN logged \cup {"Faled to parse children"} ELSE logged
            /\ stack' = Append([stack EXCEPT ![Len(stack)].todo = f.todo \ {k}],
                               Frame(ChildName(f.name, k), k, ChildGroup(v), f.currentConn))
    /\ UNCHANGED <<file, config, pc, fatal, heap, allHosts, names, visited,
                   dashboardInfo, previous>>
    /\ UNCHANGED pollVars
    /\ UNCHANGED uiVars

\* parseConfig: the range is over; a parent returns what its children appended.
ParseConfigReturn ==
    /\ pc = "parseConfig"
    /\ stack # <<>>
    /\ Top.ranging
    /\ Top.todo = {}
    /\ AppendHostAndReturn(Top, heap, Top.currentConn)
    /\ UNCHANGED <<file, config, fatal, logged, visited, previous>>
    /\ UNCHANGED pollVars
    /\ UNCHANGED uiVars

\* GetDashboardInfoConfig: the loop over config.Metrics.
ValidateMetrics ==
    /\ pc = "metrics"
    /\ IF InvalidMetric(config)
       THEN Fatal("metric") /\ UNCHANGED dashboardInfo
       ELSE /\ dashboardInfo' = [dashboardInfo EXCEPT !.Metrics = config.Metrics]
            /\ pc' = "interval"
            /\ UNCHANGED fatal
    /\ UNCHANGED <<file, config, logged, stack, heap, allHosts, names, visited, previous>>
    /\ UNCHANGED pollVars
    /\ UNCHANGED uiVars

\* GetDashboardInfoConfig: the check of config.PollInterval, and the return.
CheckPollInterval ==
    /\ pc = "interval"
    /\ IF PollIntervalTooLow(config)
       THEN Fatal("interval") /\ UNCHANGED dashboardInfo
       ELSE /\ dashboardInfo' = [dashboardInfo EXCEPT !.PollInterval = config.PollInterval]
            /\ pc' = "Main"
            /\ UNCHANGED fatal
    /\ UNCHANGED <<file, config, logged, stack, heap, allHosts, names, visited, previous>>
    /\ UNCHANGED pollVars
    /\ UNCHANGED uiVars

\* GetDashboardInfoConfig is called once more on the same *Config.
ResolveAgain ==
    /\ pc = "Main"
    /\ previous' = [known |-> TRUE, addresses |-> GetAllHostAddresses(dashboardInfo.Hosts)]
    /\ pc' = "GetDashboardInfoConfig"
    /\ UNCHANGED <<file, config, fatal, logged, stack, heap, allHosts, names, visited,
                   dashboardInfo>>
    /\ UNCHANGED pollVars
    /\ UNCHANGED uiVars

(***************************************************************************)
(* package charts                                                          *)
(***************************************************************************)

\* Ticks and writes are counted modulo TickMod.
TickMod == 3

\* The goroutine started by newSegmentDisplay.
SegmentDisplay == <<"segmentDisplay", 0, "">>

\* Faulty variant of InspectorTasks: Periodic is called without go, so the first call
\* never returns and only the first pair is polled.
InspectorTasksFirstPairOnly(info) ==
    IF Len(info.Hosts) = 0 \/ info.Metrics = {} THEN {}
    ELSE {<<"inspector", 1, CHOOSE metric \in info.Metrics : TRUE>>}

\* newHostButtons / newHostButtonPage: for _, host := range hosts, for _,
\* metric := range metrics: go Periodic(ctx, 500*time.Millisecond, i.UpdateWidget)
InspectorTasks(info) ==
    {<<"inspector", i, metric>> : i \in 1..Len(info.Hosts), metric \in info.Metrics}

\* newWidgets: the goroutines it starts. (newSparkLines, newBarChart, newDonut
\* and newSines start four more that feed widgets no layout shows; they share
\* nothing with these and are left out.)
TasksOf(info) == {SegmentDisplay} \cup InspectorTasks(info)

\* Periodic, when fn returns an error: the failure is recorded and the task
\* waits for its next tick.
PeriodicOnError == "retry"

\* var hostsPerPage int = 5
hostsPerPage == 5

\* Paginate: the hosts in pages of perPage, the last one possibly shorter;
\* no page when there is no host.
Paginate(hosts, perPage) ==
    [p \in 1..((Len(hosts) + perPage - 1) \div perPage) |->
        SubSeq(hosts, (p - 1) * perPage + 1,
               IF p * perPage < Len(hosts) THEN p * perPage ELSE Len(hosts))]

\* Next(pageIndex, pageCount): the page after pageIndex, 0 after the last.
PagerNext(pageIndex, pageCount) == (pageIndex + 1) % pageCount

\* Prev(pageIndex, pageCount): the page before pageIndex, the last before 0.
Prev(pageIndex, pageCount) == (pageIndex + pageCount - 1) % pageCount

\* newHostButtons / newHostButtonPage: one row of widgets per host of the
\* page, named here by the address on its button.
newHostButtons(paginatedHosts) ==
    [p \in DOMAIN paginatedHosts |-> GetAllHostAddresses(paginatedHosts[p])]

\* addNextPrevButtons: w.hosts[ind] = append(paginationBar, w.hosts[ind]...)
addNextPrevButtons(hosts) ==
    [ind \in DOMAIN hosts |-> <<"paginationBar">> \o hosts[ind]]

\* newHostButtonPage: currentMetric = metric in the loop over the metrics of
\* every host. The last assignment stands; the metrics are ranged in the
\* order GetDashboardInfoConfig got them from a map.
MetricAfterConstruction(info) ==
    IF Len(info.Hosts) = 0 \/ info.Metrics = {} THEN {currentMetric}
    ELSE info.Metrics

\* gridLayout: w.hosts[currentHostPage] is an index into a slice.
InRange(page, hosts) == page \in 0..(Len(hosts) - 1)

NoLayout == [lt |-> "none", page |-> <<>>, title |-> <<>>]

\* gridLayout(w, layoutAll): the rows of the current page of hosts.
LayoutAll(page, hosts) == [lt |-> "layoutAll", page |-> hosts[page + 1], title |-> <<>>]

\* gridLayout(w, layoutSingle): the inspector of currentHost and currentMetric.
LayoutSingle(host, metric) ==
    [lt |-> "layoutSingle", page |-> <<>>, title |-> <<host, metric>>]

\* A panic of the goroutine the callbacks and Main run on: the process dies.
Panic ==
    /\ pc' = "panic"
    /\ panicked' = TRUE

\* Main, from the return of GetDashboardInfoConfig to termdash.Run: the
\* terminal, the container, the widgets and their goroutines, the pagination
\* buttons and the first layout.
StartDashboard ==
    /\ pc = "Main"
    /\ tasks' = TasksOf(dashboardInfo)
    /\ taskPc' = [t \in tasks' |-> "select"]
    /\ ticks' = [t \in tasks' |-> 0]
    /\ widget' = [t \in tasks' |-> 0]
    /\ lastError' = [t \in tasks' |-> FALSE]
    /\ currentMetric' \in MetricAfterConstruction(dashboardInfo)
    /\ wHosts' = addNextPrevButtons(newHostButtons(Paginate(dashboardInfo.Hosts, hostsPerPage)))
    /\ IF InRange(currentHostPage, wHosts')
       THEN /\ layout' = LayoutAll(currentHostPage, wHosts')
            /\ pc' = "Run"
            /\ UNCHANGED panicked
       ELSE /\ Panic
            /\ UNCHANGED layout
    /\ UNCHANGED <<file, config, fatal, logged, stack, heap, allHosts, names, visited,
                   dashboardInfo, previous>>
    /\ UNCHANGED <<ctxDone, failing, currentHostPage, currentHost>>

Alive == pc \in {"Run", "returned"} /\ ~panicked

\* quitter: Esc or Ctrl-C calls cancel().
Quit ==
    /\ pc = "Run"
    /\ ~panicked
    /\ ~ctxDone
    /\ ctxDone' = TRUE
    /\ UNCHANGED loaderVars
    /\ UNCHANGED uiVars
    /\ UNCHANGED <<tasks, failing, taskPc, ticks, widget, lastError, panicked>>

\* termdash.Run returns once ctx is done; the deferred t.Close() runs and Main
\* returns. Nothing waits for the goroutines.
MainReturn ==
    /\ pc = "Run"
    /\ ~panicked
    /\ ctxDone
    /\ pc' = "returned"
    /\ UNCHANGED <<file, config, fatal, logged, stack, heap, allHosts, names, visited,
                   dashboardInfo, previous>>
    /\ UNCHANGED pollVars
    /\ UNCHANGED uiVars

\* The buttons of w.hosts[currentHostPage] are on the screen, and termdash
\* dispatches mouse events, only while termdash.Run shows layoutAll.
ButtonsShown == pc = "Run" /\ ~panicked /\ layout.lt = "layoutAll"

\* refreshPage: gridLayout(w, layoutAll) and c.Update.
refreshPage ==
    IF InRange(currentHostPage', wHosts)
    THEN /\ layout' = LayoutAll(currentHostPage', wHosts)
         /\ UNCHANGED <<pc, panicked>>
    ELSE /\ Panic
         /\ UNCHANGED layout

\* addNextPrevButtons: the callback of the button ">>>".
NextButton ==
    /\ ButtonsShown
    /\ currentHostPage' = PagerNext(currentHostPage, Len(wHosts))
    /\ refreshPage
    /\ UNCHANGED <<file, config, fatal, logged, stack, heap, allHosts, names, visited,
                   dashboardInfo, previous>>
    /\ UNCHANGED <<ctxDone, tasks, failing, taskPc, ticks, widget, lastError>>
    /\ UNCHANGED <<currentHost, currentMetric, wHosts>>

\* addNextPrevButtons: the callback of the button "<<<".
PrevButton ==
    /\ ButtonsShown
    /\ currentHostPage' = Prev(currentHostPage, Len(wHosts))
    /\ refreshPage
    /\ UNCHANGED <<file, config, fatal, logged, stack, heap, allHosts, names, visited,
                   dashboardInfo, previous>>
    /\ UNCHANGED <<ctxDone, tasks, failing, taskPc, ticks, widget, lastError>>
    /\ UNCHANGED <<currentHost, currentMetric, wHosts>>

\* newHostButtonPage: the callback of the button of the host at address:
\* currentHost = address; setLayout(c, w, layoutSingle).
HostButton(address) ==
    /\ ButtonsShown
    /\ \E row \in 2..Len(layout.page) : layout.page[row] = address
    /\ currentHost' = address
    /\ layout' = LayoutSingle(currentHost', currentMetric)
    /\ UNCHANGED loaderVars
    /\ UNCHANGED pollVars
    /\ UNCHANGED <<currentHostPage, currentMetric, wHosts>>

\* select: case <-ticker.C. When ctx.Done() is ready too, Go picks either.
Tick(t) ==
    /\ Alive
    /\ t \in tasks
    /\ taskPc[t] = "select"
    /\ taskPc' = [taskPc EXCEPT ![t] = "tick"]
    /\ UNCHANGED loaderVars
    /\ UNCHANGED uiVars
    /\ UNCHANGED <<ctxDone, tasks, failing, ticks, widget, lastError, panicked>>

\* select: case <-ctx.Done(): return
Exit(t) ==
    /\ Alive
    /\ t \in tasks
    /\ taskPc[t] = "select"
    /\ ctxDone
    /\ taskPc' = [taskPc EXCEPT ![t] = "done"]
    /\ UNCHANGED loaderVars
    /\ UNCHANGED uiVars
    /\ UNCHANGED <<ctxDone, tasks, failing, ticks, widget, lastError, panicked>>

\* The body of case <-ticker.C of the segment display: no chunks -> continue;
\* otherwise sd.Write(chunks) and step++.
SegmentDisplayBody(t) ==
    /\ t = SegmentDisplay
    /\ \E chunks \in BOOLEAN :
        IF chunks
        THEN /\ widget' = [widget EXCEPT ![t] = (widget[t] + 1) % TickMod]
             /\ ticks' = [ticks EXCEPT ![t] = (ticks[t] + 1) % TickMod]
        ELSE UNCHANGED <<widget, ticks>>
    /\ taskPc' = [taskPc EXCEPT ![t] = "select"]
    /\ UNCHANGED <<lastError, panicked>>

\* The body of case <-ticker.C of Periodic: fn is i.UpdateWidget, which samples
\* the host and writes the widget, or returns the sampler's error.
InspectorBody(t) ==
    /\ t # SegmentDisplay
    /\ IF t \in failing
       THEN IF PeriodicOnError = "retry"
            THEN /\ lastError' = [lastError EXCEPT ![t] = TRUE]
                 /\ ticks' = [ticks EXCEPT ![t] = (ticks[t] + 1) % TickMod]
                 /\ taskPc' = [taskPc EXCEPT ![t] = "select"]
                 /\ UNCHANGED <<widget, panicked>>
            ELSE /\ panicked' = TRUE
                 /\ UNCHANGED <<widget, ticks, lastError, taskPc>>
       ELSE /\ widget' = [widget EXCEPT ![t] = (widget[t] + 1) % TickMod]
            /\ ticks' = [ticks EXCEPT ![t] = (ticks[t] + 1) % TickMod]
            /\ lastError' = [lastError EXCEPT ![t] = FALSE]
            /\ taskPc' = [taskPc EXCEPT ![t] = "select"]
            /\ UNCHANGED panicked

Body(t) ==
    /\ Alive
    /\ t \in tasks
    /\ taskPc[t] = "tick"
    /\ SegmentDisplayBody(t) \/ InspectorBody(t)
    /\ UNCHANGED loaderVars
    /\ UNCHANGED uiVars
    /\ UNCHANGED <<ctxDone, tasks, failing>>

(***************************************************************************)
(* Specifications                                                          *)
(***************************************************************************)

Init ==
    /\ file \in Files
    /\ config = ZeroConfig
    /\ pc = "LoadConfig"
    /\ fatal = ""
    /\ logged = {}
    /\ stack = <<>>
    /\ heap = <<>>
    /\ allHosts = <<>>
    /\ names = <<>>
    /\ visited = {}
    /\ dashboardInfo = ZeroDashboardInfo
    /\ previous = NoPrevious
    /\ ctxDone = FALSE
    /\ tasks = {}
    /\ failing = {}
    /\ taskPc = EmptyKids
    /\ ticks = EmptyKids
    /\ widget = EmptyKids
    /\ lastError = EmptyKids
    /\ panicked = FALSE
    /\ currentHostPage = 0
    /\ currentHost = ""
    /\ currentMetric = ""
    /\ wHosts = <<>>
    /\ layout = NoLayout

Next ==
    \/ LoadConfig
    \/ GetDashboardInfoConfig
    \/ ParseConfigCall
    \/ ParseConfigRange
    \/ ParseConfigReturn
    \/ ValidateMetrics
    \/ CheckPollInterval
    \/ ResolveAgain
    \/ StartDashboard

Spec == Init /\ [][Next]_vars

\* Every task a session may run.
TaskUniverse ==
    {SegmentDisplay} \cup {<<"inspector", i, metric>> : i \in 1..2, metric \in {"memory", "disk"}}

\* The hosts of a root whose children are bare names, all sharing the root's
\* Connection, in either order of the range.
BareHosts(addresses) ==
    [i \in 1..Len(addresses) |-> [Address |-> addresses[i], Alias |-> "", Connection |-> 1]]

BareConfig(addresses, metrics) ==
    [Hosts |-> Group(NoConnection,
                     ChildrenMap([k \in {addresses[i] : i \in 1..Len(addresses)} |-> NilValue]),
                     ""),
     Metrics |-> metrics, Title |-> "", PollInterval |-> MinPollInterval]

\* The sessions explored: at most two (host, metric) pairs.
Sessions ==
    {<<<<"a">>, {"memory"}>>, <<<<"a">>, {"memory", "disk"}>>,
     <<<<"a", "b">>, {"memory"}>>, <<<<"b", "a">>, {"memory"}>>}

\* The state Main is in when termdash.Run starts, for each session and each
\* set of samplers that fail.
PollInit ==
    \E s \in Sessions :
        LET addresses == s[1]
            metrics == s[2]
            cfg == BareConfig(addresses, metrics)
            info == [Hosts |-> BareHosts(addresses), Metrics |-> metrics,
                     Title |-> "Saido", PollInterval |-> MinPollInterval]
        IN  /\ file = [readable |-> TRUE, wellFormed |-> TRUE, content |-> cfg]
            /\ config = cfg
            /\ pc = "Run"
            /\ fatal = ""
            /\ logged = {}
            /\ stack = <<>>
            /\ heap = <<[ZeroConnection EXCEPT !.Host = addresses[Len(addresses)]]>>
            /\ allHosts = info.Hosts
            /\ names = [i \in 1..Len(addresses) |-> <<"root", addresses[i]>>]
            /\ visited = {<<"root">>} \cup {<<"root", addresses[i]>> : i \in 1..Len(addresses)}
            /\ dashboardInfo = info
            /\ previous = NoPrevious
            /\ ctxDone = FALSE
            /\ tasks = TasksOf(info)
            /\ failing \in SUBSET InspectorTasks(info)
            /\ taskPc = [t \in tasks |-> "select"]
            /\ ticks = [t \in tasks |-> 0]
            /\ widget = [t \in tasks |-> 0]
            /\ lastError = [t \in tasks |-> FALSE]
            /\ panicked = FALSE
            /\ currentHostPage = 0
            /\ currentHost = ""
            /\ currentMetric \in metrics
            /\ wHosts = addNextPrevButtons(newHostButtons(Paginate(info.Hosts, hostsPerPage)))
            /\ layout = LayoutAll(0, wHosts)

PollNext ==
    \/ Quit
    \/ MainReturn
    \/ \E t \in TaskUniverse : Tick(t)
    \/ \E t \in TaskUniverse : Body(t)
    \/ \E t \in TaskUniverse : Exit(t)

PollSpec == PollInit /\ [][PollNext]_vars

\* Every goroutine that can take a step eventually takes one: the ticker
\* fires every interval and the scheduler runs every runnable goroutine.
FairPollSpec ==
    /\ PollSpec
    /\ \A t \in TaskUniverse : WF_vars(Tick(t)) /\ WF_vars(Body(t))

\* The addresses of the dashboards whose pages are explored.
Addresses == <<"a", "b", "c", "d", "e", "f", "g", "h", "i", "j", "k">>

\* The dashboards explored: no host (no page), one page (part of one, a full
\* one), two pages and three, and with one host no metric or two.
UISessions ==
    {<<n, {"memory"}>> : n \in {0, 1, 5, 6, 11}} \cup {<<1, {}>>, <<1, {"memory", "disk"}>>}

\* The goroutines that take steps next to the callbacks.
UITasks == {SegmentDisplay, <<"inspector", 1, "memory">>}

\* The state Main is in when GetDashboardInfoConfig has returned, for each
\* dashboard.
UIInit ==
    \E s \in UISessions :
        LET addresses == SubSeq(Addresses, 1, s[1])
            metrics == s[2]
            cfg == BareConfig(addresses, metrics)
            info == [Hosts |-> BareHosts(addresses), Metrics |-> metrics,
                     Title |-> "Saido", PollInterval |-> MinPollInterval]
        IN  /\ file = [readable |-> TRUE, wellFormed |-> TRUE, content |-> cfg]
            /\ config = cfg
            /\ pc = "Main"
            /\ fatal = ""
            /\ logged = {}
            /\ stack = <<>>
            /\ heap = <<IF addresses = <<>> THEN ZeroConnection
                        ELSE [ZeroConnection EXCEPT !.Host = addresses[Len(addresses)]]>>
            /\ allHosts = info.Hosts
            /\ names = [i \in 1..Len(addresses) |-> <<"root", addresses[i]>>]
            /\ visited = {<<"root">>} \cup {<<"root", addresses[i]>> : i \in 1..Len(addresses)}
            /\ dashboardInfo = info
            /\ previous = NoPrevious
            /\ ctxDone = FALSE
            /\ tasks = {}
            /\ failing \in SUBSET (InspectorTasks(info) \cap UITasks)
            /\ taskPc = EmptyKids
            /\ ticks = EmptyKids
            /\ widget = EmptyKids
            /\ lastError = EmptyKids
            /\ panicked = FALSE
            /\ currentHostPage = 0
            /\ currentHost = ""
            /\ currentMetric = ""
            /\ wHosts = <<>>
            /\ layout = NoLayout

UINext ==
    \/ StartDashboard
    \/ NextButton
    \/ PrevButton
    \/ \E i \in 1..Len(Addresses) : HostButton(Addresses[i])
    \/ Quit
    \/ MainReturn
    \/ \E t \in UITasks : Tick(t)
    \/ \E t \in UITasks : Body(t)
    \/ \E t \in UITasks : Exit(t)

UISpec == UIInit /\ [][UINext]_vars

(***************************************************************************)
(* What the claims speak of, read off the configuration tree itself.       *)
(***************************************************************************)

\* The node a name leads to from group (name without its first element,
\* "root").
RECURSIVE GroupAt(_, _)
GroupAt(group, path) ==
    IF path = <<>> THEN group
    ELSE GroupAt(ChildGroup(group.children.kids[Head(path)]), Tail(path))

\* The names of all nodes of the tree under group, itself included.
RECURSIVE NodeNames(_, _)
NodeNames(group, name) ==
    {name} \cup UNION {NodeNames(ChildGroup(group.children.kids[k]), Append(name, k)) :
                          k \in DOMAIN group.children.kids}

\* The names of the leaves: the nodes without a children key.
LeafNames(group, name) ==
    {n \in NodeNames(group, name) : GroupAt(group, Tail(n)).children.tag = "absent"}

\* The entries of all children maps of the tree.
RECURSIVE Entries(_)
Entries(group) ==
    UNION {{group.children.kids[k]} \cup Entries(ChildGroup(group.children.kids[k])) :
              k \in DOMAIN group.children.kids}

\* The settings a connection block stands for.
Settings(block) ==
    [Type |-> block.type, Username |-> block.username, Password |-> block.password,
     PrivateKeyPath |-> block.private_key_path,
     PrivateKeyPassPhrase |-> block.private_key_passphrase,
     Port |-> IF block.type = "ssh" /\ block.port = 0 THEN 22 ELSE block.port]

\* The settings of a Connection object: all its fields but Host.
SettingsOf(c) ==
    [Type |-> c.Type, Username |-> c.Username, Password |-> c.Password,
     PrivateKeyPath |-> c.PrivateKeyPath,
     PrivateKeyPassPhrase |-> c.PrivateKeyPassPhrase, Port |-> c.Port]

\* The settings of the nearest node on the path that declares a connection,
\* inherited when there is none.
RECURSIVE NearestSettings(_, _, _)
NearestSettings(group, path, inherited) ==
    LET here == IF group.connection.tag = "absent" THEN inherited
                ELSE Settings(group.connection.block)
    IN  IF path = <<>> THEN here
        ELSE NearestSettings(ChildGroup(group.children.kids[Head(path)]), Tail(path), here)

\* parseConfig has returned to GetDashboardInfoConfig.
Resolved == pc \in {"metrics", "interval", "Main", "Run"}

(***************************************************************************)
(* Claims                                                                  *)
(***************************************************************************)

\* C1: once parseConfig has returned, the output holds exactly one Host for
\* every leaf of the tree (a node without a children key) and none for a node
\* with a children key, so it has as many Hosts as the tree has leaves.
C1_OneHostPerLeaf ==
    Resolved =>
        /\ Len(allHosts) = Cardinality(LeafNames(config.Hosts, <<"root">>))
        /\ {names[i] : i \in 1..Len(names)} = LeafNames(config.Hosts, <<"root">>)
        /\ \A i, j \in 1..Len(names) : names[i] = names[j] => i = j
        /\ dashboardInfo.Hosts = allHosts

\* C1 witness: a resolved tree with a group below the root and three leaves.
C1_Witness ==
    /\ Resolved
    /\ Len(allHosts) = 3
    /\ <<"root", "g", "b">> \in visited

\* C2: the connection settings of every resolved Host are those of the
\* connection block of the nearest node on its path that declares one (the
\* leaf included), or the root default; so an override in one subtree leaves
\* the hosts of a sibling subtree alone.
C2_NearestConnection ==
    Resolved =>
        \A i \in 1..Len(allHosts) :
            SettingsOf(heap[allHosts[i].Connection])
                = NearestSettings(config.Hosts, Tail(names[i]), SettingsOf(ZeroConnection))

\* C2 witness: the group g overrides the root's connection, its child b
\* inherits the override and the sibling a of g keeps the root's.
C2_Witness ==
    /\ Resolved
    /\ config.Hosts.connection.tag = "map"
    /\ \E i, j \in 1..Len(allHosts) :
        /\ names[i] = <<"root", "a">>
        /\ names[j] = <<"root", "g", "b">>
        /\ GroupAt(config.Hosts, <<"a">>).connection.tag = "absent"
        /\ GroupAt(config.Hosts, <<"g">>).connection.tag = "map"
        /\ GroupAt(config.Hosts, <<"g", "b">>).connection.tag = "absent"
        /\ heap[allHosts[i].Connection].Type = "ssh"
        /\ heap[allHosts[j].Connection].Type = "local"

\* C3: once parseConfig has returned, every Host has a Connection of its own
\* whose Host field is the Host's address.
C3_OwnConnectionBoundToAddress ==
    Resolved =>
        /\ \A i \in 1..Len(allHosts) :
            heap[allHosts[i].Connection].Host = allHosts[i].Address
        /\ \A i, j \in 1..Len(allHosts) :
            allHosts[i].Connection = allHosts[j].Connection => i = j

\* The groups of the tree: every node, a nil map for an entry that is no map.
Groups(root) == {GroupAt(root, Tail(n)) : n \in NodeNames(root, <<"root">>)}

\* A connection node sets both a password and a private key path.
BothCredentials(group) ==
    /\ group.connection.tag = "map"
    /\ group.connection.block.password # ""
    /\ group.connection.block.private_key_path # ""

\* The children subtree of some node is malformed: the value of the children
\* key is no map, or an entry of it is neither nil nor a map.
ChildrenMalformed(root) ==
    \/ \E g \in Groups(root) : g.children.tag = "bad"
    \/ \E v \in Entries(root) : v.kind = "scalar"

\* The fatal startup conditions, read off the file.
FatalStartupCondition ==
    \/ ~file.readable
    \/ ~file.wellFormed
    \/ \E metric \in file.content.Metrics : ~Valid(metric)
    \/ file.content.PollInterval < 5
    \/ \E g \in Groups(file.content.Hosts) : BothCredentials(g)
    \/ ChildrenMalformed(file.content.Hosts)

\* C6: under each fatal startup condition the process exits within LoadConfig
\* or GetDashboardInfoConfig: GetDashboardInfoConfig never returns to Main and
\* no dashboard is started.
C6_FatalConditionsExit ==
    FatalStartupCondition => pc \notin {"Main", "Run"}

\* C7: a connection block with both password and private_key_path set never
\* yields a Connection: the call of parseConfig that decodes it ends the
\* process, whatever the other fields are, and no Connection on the heap has
\* both.
C7_BothCredentialsFatal ==
    /\ \A n \in visited :
        BothCredentials(GroupAt(config.Hosts, Tail(n)))
            => pc = "exited" /\ fatal = "credentials"
    /\ \A a \in 1..Len(heap) : heap[a].Password = "" \/ heap[a].PrivateKeyPath = ""

\* C7 witness: the process has exited on a block with both credentials whose
\* type is not ssh and whose port and passphrase are set.
C7_Witness ==
    /\ pc = "exited"
    /\ fatal = "credentials"
    /\ \E n \in visited :
        LET g == GroupAt(config.Hosts, Tail(n))
        IN  /\ BothCredentials(g)
            /\ g.connection.block.type = "local"
            /\ g.connection.block.port = 2222
            /\ g.connection.block.private_key_passphrase = "s"
            /\ g.connection.block.username = ""

\* The document sets a poll interval below 5.
LowPollInterval ==
    file.readable /\ file.wellFormed /\ file.content.PollInterval < 5

\* C8 as stated: with a poll interval below 5 the process aborts before the
\* resolver visits any node of the hosts tree.
C8_FatalBeforeResolution ==
    LowPollInterval => visited = {}

\* C8 amended: with a poll interval below 5 GetDashboardInfoConfig never
\* returns and no dashboard is started; the poll-interval error is raised
\* only after parseConfig has visited the whole hosts tree and returned and
\* the metrics have been validated.
C8_FatalAfterResolution ==
    LowPollInterval =>
        /\ pc \notin {"Main", "Run"}
        /\ fatal = "interval" =>
            /\ stack = <<>>
            /\ visited = NodeNames(config.Hosts, <<"root">>)
            /\ dashboardInfo.Hosts = allHosts
            /\ dashboardInfo.Metrics = config.Metrics

\* C8 witness: the poll-interval error ended the process after three hosts
\* were resolved.
C8_Witness ==
    /\ LowPollInterval
    /\ pc = "exited"
    /\ fatal = "interval"
    /\ Len(dashboardInfo.Hosts) = 3

\* C9: resolving the same tree again yields the same sequence of addresses.
C9_SameOrderEveryTime ==
    (Resolved /\ previous.known) => GetAllHostAddresses(allHosts) = previous.addresses

\* C10: resolution never returns two Hosts with the same address.
C10_UniqueAddresses ==
    Resolved =>
        \A i, j \in 1..Len(allHosts) :
            allHosts[i].Address = allHosts[j].Address => i = j

\* The (host, metric) pair of task t belongs to the running dashboard.
Polled(t) == t[2] \in 1..Len(dashboardInfo.Hosts) /\ t[3] \in dashboardInfo.Metrics

\* The ticks completed and the writes made by task t, 0 when it does not run.
TicksOf(t) == IF t \in tasks THEN ticks[t] ELSE 0
WritesOf(t) == IF t \in tasks THEN widget[t] ELSE 0

C5_NoWriteAfterReturn ==
    [][pc = "returned" => widget' = widget]_vars

\* C11: once parseConfig has returned, no Host of the output stands for the
\* root node and every Host has a non-empty address, also when the root has
\* no children key (hosts empty or missing, or only a connection block).
C11_RootNotInOutput ==
    Resolved =>
        \A i \in 1..Len(allHosts) :
            /\ names[i] # <<"root">>
            /\ allHosts[i].Address # ""

\* C13: whenever parseConfig decodes the connection block of a node into a
\* new Connection, the Connection has port 22 when the block has type ssh and
\* port 0 (or no port key), has the block's port when that is not 0, and has
\* the block's port, 0 included, when the type is not ssh.
C13_SshPortDefault ==
    [][(pc = "parseConfig" /\ Len(heap') = Len(heap) + 1) =>
          LET block == ConnectionArg(Top.group)
              c == heap'[Len(heap')]
          IN  /\ (block.type = "ssh" /\ block.port = 0) => c.Port = 22
              /\ block.port # 0 => c.Port = block.port
              /\ block.type # "ssh" => c.Port = block.port]_vars

\* C13 witness: the blocks of the group g decoded so far include an ssh block
\* without a port that became a Connection with port 22.
C13_Witness ==
    /\ pc = "parseConfig"
    /\ <<"root", "g">> \in visited
    /\ Len(heap) = 2
    /\ LET block == GroupAt(config.Hosts, <<"g">>).connection.block
       IN  /\ block.type = "ssh"
           /\ block.port = 0
           /\ block.private_key_path = "k"
           /\ heap[2].Type = "ssh"
           /\ heap[2].Port = 22
           /\ heap[2].PrivateKeyPath = "k"

\* newWidgets and addNextPrevButtons have run: w.hosts is built.
Built == pc \in {"Run", "returned", "panic"}

\* pageCount = ceil(totalHosts / pageSize)
PageCount == (Len(dashboardInfo.Hosts) + hostsPerPage - 1) \div hostsPerPage

\* C12: once the pages are built and after any sequence of next and previous
\* callbacks, currentHostPage is in [0, pageCount) with pageCount =
\* ceil(totalHosts / pageSize) and no lookup w.hosts[currentHostPage] is out
\* of range; next goes from the last page to page 0 and otherwise one page
\* on, previous from page 0 to the last page and otherwise one page back.
C12_PageIndexInRange ==
    /\ [](Built =>
            /\ Len(wHosts) = PageCount
            /\ currentHostPage \in 0..(PageCount - 1)
            /\ pc # "panic")
    /\ [][NextButton =>
            currentHostPage' = IF currentHostPage = PageCount - 1 THEN 0
                               ELSE currentHostPage + 1]_vars
    /\ [][PrevButton =>
            currentHostPage' = IF currentHostPage = 0 THEN PageCount - 1
                               ELSE currentHostPage - 1]_vars

\* A user-input callback: the next or previous button, or a host button.
UserInputCallback ==
    \/ NextButton
    \/ PrevButton
    \/ \E i \in 1..Len(Addresses) : HostButton(Addresses[i])

\* C14: every step that changes currentHostPage, currentHost or
\* currentMetric is a user-input callback: no step of widget construction,
\* of a polling task or of rendering writes any of them.
C14_OnlyCallbacksWrite ==
    [][<<currentHostPage, currentHost, currentMetric>>'
            # <<currentHostPage, currentHost, currentMetric>>
          => UserInputCallback]_vars

====
